---- MODULE Spec2Model ----
(***************************************************************************)
(* Model of the scheduling and synchronisation layer of mujoco-app        *)
(* (src/mujoco-app/src/mujoco_app.rs).                                     *)
(*                                                                         *)
(* Two execution contexts act on two mutex-guarded cells:                  *)
(*   "main": the caller of run_app.  With rendering it runs the winit      *)
(*           event loop (window_event, render); headless it runs           *)
(*           loop_physics.                                                 *)
(*   "phys": the thread spawned by launch_physics_thread, running          *)
(*           loop_physics_threaded.                                        *)
(*                                                                         *)
(* Wall-clock time is counted in whole milliseconds.  The scheduler's      *)
(* Instant::now() and Instant::elapsed() draw monotonic readings of it     *)
(* (now is the latest reading).  The f64 arithmetic of the RateLimited     *)
(* arm is modelled in exact integer arithmetic on milliseconds, so the     *)
(* timestep is a whole number of milliseconds.                             *)
(***************************************************************************)
EXTENDS Integers, FiniteSets, Sequences, TLC

\* ---------------------------------------------------------------- bounds
\* The wall clock stops advancing at MaxTime milliseconds.
MaxTime == 4
\* No Uncapped iteration and no headless iteration starts once the
\* simulation has completed MaxSteps steps.
MaxSteps == 3
\* The model description's timestep option, in milliseconds.
ModelTimestep == 2

\* ------------------------------------------------------ program constants
\* thread::sleep(Duration::from_millis(1)) in the Paused arm.
PausedSleepMs == 1
\* frame_rate: 60. in AppBuilder::build.
InitialFrameRate == 60
\* 1. / elapsed.as_secs_f32(): elapsed is held in milliseconds here.
MsPerSecond == 1000

\* self.last_render.elapsed() in whole milliseconds: the time between two
\* frames is an input of render, a frame following at once or one display
\* refresh later.  last_render is read nowhere else and is not kept.
FramePeriods == {0, 16}

\* WindowEvent::KeyboardInput { event: KeyEvent { logical_key, state,
\* repeat, .. }, .. }: the named keys Space and Escape, the characters "u"
\* and "x" (any other character); a repeat is a press.
Keys == {"Space", "Escape", "u", "x"}
KeyEvents ==
    {ev \in [logical_key : Keys, pressed : BOOLEAN, repeat : BOOLEAN] :
        ev.repeat => ev.pressed}
CloseEvent == [logical_key |-> "CloseRequested", pressed |-> FALSE, repeat |-> FALSE]
NoEvent == [logical_key |-> "none", pressed |-> FALSE, repeat |-> FALSE]
KeyPress(k) == [logical_key |-> k, pressed |-> TRUE, repeat |-> FALSE]

Contexts == {"main", "phys"}
RunningStates == {"Paused", "RateLimited", "Uncapped"}

VARIABLES
    \* --- AppBuilder / MujocoApp configuration, fixed by build()
    rendering,          \* MujocoApp.rendering.is_some()
    ctrl_cb,            \* MujocoApp.ctrl_cb.is_some()
    model_dt,           \* the model's timestep option (ms), an input
    model_result,       \* Model::from_xml's result: "none" before the call,
                        \* then "ok" or "err"
    \* --- Shared Simulation Handle: Arc<Mutex<Simulation>>
    sim_lock,           \* "free" or the context holding the mutex
    sim_steps,          \* completed calls of Simulation::step
    sim_mid,            \* a call of Simulation::step is in progress
    hook_calls,         \* invocations of the control-law hook
    \* --- Run-Mode State: Arc<Mutex<PhysicsState>>
    state_lock,         \* "free" or the context holding the mutex
    physics_state,      \* [running_state, frame_rate]
    \* --- MujocoApp fields owned by the main context
    frame_rate_limited,
    exited,             \* event_loop.exit() was called
    pc_main,            \* position of the main context
    fps,                \* render's local fps
    snapshot,           \* what render read under the simulation lock
    event,              \* window_event's parameter while a handler runs
    \* --- locals of loop_physics_threaded
    pc_phys,            \* position of the physics context
    last_updated,
    timestep,
    current_state,
    elapsed_real,
    num_steps,
    i,                  \* iterations of `for _ in 0..num_steps` started
    wake,               \* the instant the current thread::sleep may end
    \* --- the clock
    now,
    \* --- history variables (observers; no action's guard reads them)
    hist,               \* values PhysicsState has held during the mode read
    steps_at_read,      \* sim_steps when the current iteration read the mode
    poll_time,          \* now when the RateLimited arm measured elapsed_real
    rl_base,            \* last_updated before a run of RateLimited iterations
    rl_total,           \* steps taken in that run
    written_from,       \* running_state before the write a key handler just made
    pause_start,        \* when running_state became Paused, if last_updated
                        \* has not been assigned since
    pause_len,          \* the length of that pause once it ended in RateLimited
    after_pause,        \* pause_len, in the first iteration that read the mode
                        \* after the pause
    hook_saw,           \* sim_steps as the control hook in progress read it
    unc_done,           \* the reading last_updated took at the end of the last
                        \* Uncapped iteration, while it is still that reading
                        \* and no RateLimited poll has used it
    unc_reset,          \* the Paused arm has set last_updated to a later
                        \* reading since that Uncapped iteration
    pref_switch,        \* "pending": after an Uncapped step, running_state
                        \* last changed from Uncapped to RateLimited and was
                        \* not read since; "reading": the current iteration's
                        \* read is the first since
    pause_read,         \* running_state is Paused and the scheduler has locked the
                        \* record for a mode read since it became Paused
    ever_unpaused       \* running_state has been written non-Paused

cfg_vars  == <<rendering, ctrl_cb, model_dt, model_result>>
sim_vars  == <<sim_lock, sim_steps, sim_mid, hook_calls>>
mode_vars == <<state_lock, physics_state>>
main_vars == <<frame_rate_limited, exited, pc_main, fps, snapshot, event>>
phys_vars == <<pc_phys, last_updated, timestep, current_state, elapsed_real,
               num_steps, i, wake>>
hist_vars == <<hook_saw, hist, steps_at_read, poll_time, rl_base, rl_total,
               written_from, pause_start, pause_len, after_pause, unc_done,
               unc_reset, pref_switch, pause_read, ever_unpaused>>
vars == <<cfg_vars, sim_vars, mode_vars, main_vars, phys_vars, now, hist_vars>>

\* ------------------------------------------------------- faulty variants
\* state.time() read one step too late.
SimTimeAfterAnotherStep == (sim_steps + 1) * model_dt

\* Deliberately wrong versions of operators defined below.  Each property
\* of the last section is shown to discriminate by failing when one of
\* them stands in for the operator it is a variant of.

\* SpaceTarget with the two running modes exchanged.
SpaceTargetSwapped(rs, limited) ==
    IF rs = "Paused"
    THEN (IF limited THEN "Uncapped" ELSE "RateLimited")
    ELSE "Paused"

\* SpaceTarget resuming into RateLimited whatever the preference is.
SpaceTargetAlwaysLimited(rs, limited) ==
    IF rs = "Paused" THEN "RateLimited" ELSE "Paused"

\* SpaceTarget pausing only when the preference is set.
SpaceTargetByPreference(rs, limited) ==
    IF rs = "Paused"
    THEN (IF limited THEN "RateLimited" ELSE "Uncapped")
    ELSE (IF limited THEN "Paused" ELSE rs)

\* PreferenceTarget applying the preference as it was before the flip.
PreferenceTargetInverted(rs, limited) ==
    IF limited THEN "Uncapped" ELSE "RateLimited"

\* A mutex that never blocks.
CanLockAlways(lock) == TRUE

\* A mutex the physics context can take from the main context.
CanLockStolen(lock) == lock \in {"free", "main"}

\* NumSteps rounding up.
NumStepsCeil(e, t) == (e + t - 1) \div t

\* Advanced moving last_updated to the instant elapsed_real was measured.
AdvancedToNow(lu, n, t) == lu + elapsed_real

\* Arm treating Paused as Uncapped.
ArmIgnoresPause(cs) ==
    IF cs.running_state = "Paused" THEN "Uncapped" ELSE cs.running_state

\* EventArm taking a repeat for a press.
EventArmOnRepeat(ev) ==
    CASE ev.logical_key = "Space" /\ ev.pressed -> "space"
      [] ev.logical_key = "Escape" /\ ev.pressed -> "escape"
      [] ev.logical_key \in {"u", "x"} /\ ev.pressed -> "character"
      [] OTHER -> "other"

\* ---------------------------------------------------------------- helpers
None == 0 - 1

\* `let current_state: PhysicsState;` before the scheduler assigns it.
NoState == [running_state |-> "none", frame_rate |-> 0]
NoSnapshot == [steps |-> None, mid |-> FALSE]

\* The match on current_state.running_state is the last read of the copy:
\* from there on only the arm taken is kept of it.
Matched(cs) == [running_state |-> cs.running_state, frame_rate |-> 0]

\* match current_state.running_state { .. }: the arm the scheduler takes.
Arm(cs) == cs.running_state

\* Mutex::lock returns only when no context holds the mutex.
CanLock(lock) == lock = "free"

\* state.time() of the simulation: every step advances it by the model's
\* timestep option.
SimTime == sim_steps * model_dt

\* (elapsed_real.as_secs_f64() / timestep).floor() as u32, for a timestep
\* above zero.  The cast saturates at u32::MAX, a quotient no clock value
\* within MaxTime reaches.
NumSteps(e, t) == e \div t

\* last_updated += Duration::from_secs_f64(num_steps as f64 * timestep)
Advanced(lu, n, t) == lu + n * t

\* 1. / self.last_render.elapsed().as_secs_f32(), elapsed in milliseconds.
\* Less than a millisecond elapsed reads as 0 here; the quotient is then
\* above MsPerSecond (up to f32 infinity), written MsPerSecond + 1.
Fps(e) == IF e = 0 THEN MsPerSecond + 1 ELSE MsPerSecond \div e

\* The arm of window_event's match a keyboard event is handled by: each of
\* the three key patterns asks for state: Pressed and repeat: false; every
\* other event falls to `_ => {}`.
EventArm(ev) ==
    CASE ev.logical_key = "Space" /\ ev.pressed /\ ~ev.repeat -> "space"
      [] ev.logical_key = "Escape" /\ ev.pressed /\ ~ev.repeat -> "escape"
      [] ev.logical_key \in {"u", "x"} /\ ev.pressed /\ ~ev.repeat -> "character"
      [] OTHER -> "other"

\* The Space arm's match on running_state.
SpaceTarget(rs, limited) ==
    IF rs = "Paused"
    THEN (IF limited THEN "RateLimited" ELSE "Uncapped")
    ELSE "Paused"

\* The "u" arm's write after the flip; the arm does not read running_state.
PreferenceTarget(rs, limited) ==
    IF limited THEN "RateLimited" ELSE "Uncapped"

\* A write of the record by the main context at clock reading t; the
\* history variables observe it.
WriteState(new, t) ==
    LET old == physics_state.running_state
        rs  == new.running_state
    IN  /\ physics_state' = new
        /\ hist' = IF pc_phys \in {"copy_rs", "copy_fr"}
                   THEN hist \cup {new} ELSE hist
        /\ ever_unpaused' = (ever_unpaused \/ rs # "Paused")
        /\ pause_start' =
             CASE rs = old -> pause_start
               [] rs = "Paused" -> t
               [] OTHER -> None
        /\ pause_len' =
             CASE rs = old -> pause_len
               [] old = "Paused" /\ rs = "RateLimited" /\ pause_start # None
                    -> t - pause_start
               [] OTHER -> None
        /\ pref_switch' =
             CASE rs = old -> pref_switch
               [] /\ old = "Uncapped" /\ rs = "RateLimited"
                  /\ (unc_done # None \/ unc_reset) -> "pending"
               [] pref_switch = "reading" -> "reading"
               [] OTHER -> "none"
        /\ pause_read' = (pause_read /\ rs = "Paused" /\ old = "Paused")

\* ------------------------------------------------------------------- Init
\* The state AppBuilder::build returns: the bootstrap step is done, the
\* mode is Paused, the preference is true.
Init ==
    /\ rendering \in BOOLEAN
    /\ ctrl_cb \in BOOLEAN
    /\ model_dt = ModelTimestep
    /\ model_result = "ok"
    /\ sim_lock = "free"
    /\ sim_steps = 1
    /\ sim_mid = FALSE
    /\ hook_calls = 0
    /\ state_lock = "free"
    /\ physics_state = [running_state |-> "Paused", frame_rate |-> InitialFrameRate]
    /\ frame_rate_limited = TRUE
    /\ exited = FALSE
    /\ pc_main = "built"
    /\ fps = 0
    /\ snapshot = NoSnapshot
    /\ event = NoEvent
    /\ pc_phys = "unspawned"
    /\ last_updated = 0
    /\ timestep = 0
    /\ current_state = NoState
    /\ elapsed_real = 0
    /\ num_steps = 0
    /\ i = 0
    /\ wake = 0
    /\ now = 0
    /\ hist = {}
    /\ steps_at_read = 0
    /\ poll_time = None
    /\ rl_base = None
    /\ rl_total = 0
    /\ written_from = "none"
    /\ pause_start = None
    /\ pause_len = None
    /\ after_pause = None
    /\ hook_saw = None
    /\ unc_done = None
    /\ unc_reset = FALSE
    /\ pref_switch = "none"
    /\ pause_read = FALSE
    /\ ever_unpaused = FALSE

\* The state in which the caller's main begins: no model is loaded, and no
\* simulation, no Run-Mode State and no physics thread exist ("absent"
\* locks, NoState, zero steps).  What the caller will ask of the builder
\* (rendering, a control hook) is fixed from the start.
MainInit ==
    /\ rendering \in BOOLEAN
    /\ ctrl_cb \in BOOLEAN
    /\ model_dt = ModelTimestep
    /\ model_result = "none"
    /\ sim_lock = "absent"
    /\ sim_steps = 0
    /\ sim_mid = FALSE
    /\ hook_calls = 0
    /\ state_lock = "absent"
    /\ physics_state = NoState
    /\ frame_rate_limited = FALSE
    /\ exited = FALSE
    /\ pc_main = "main"
    /\ fps = 0
    /\ snapshot = NoSnapshot
    /\ event = NoEvent
    /\ pc_phys = "unspawned"
    /\ last_updated = 0
    /\ timestep = 0
    /\ current_state = NoState
    /\ elapsed_real = 0
    /\ num_steps = 0
    /\ i = 0
    /\ wake = 0
    /\ now = 0
    /\ hist = {}
    /\ steps_at_read = 0
    /\ poll_time = None
    /\ rl_base = None
    /\ rl_total = 0
    /\ written_from = "none"
    /\ pause_start = None
    /\ pause_len = None
    /\ after_pause = None
    /\ hook_saw = None
    /\ unc_done = None
    /\ unc_reset = FALSE
    /\ pref_switch = "none"
    /\ pause_read = FALSE
    /\ ever_unpaused = FALSE

\* event_loop.exit() makes run_app return; the caller's main then returns
\* and the process ends, and with it the physics thread, which is never
\* joined or signalled.  Nothing acts after the exit.
Alive == ~exited

\* Instant::now() is monotonic: a reading is no earlier than the one before
\* it, in whichever context that was made.  now is the latest reading; an
\* action that reads the clock draws its reading t from Readings.
Readings == now..MaxTime

\* --------------------------------------------------- main and AppBuilder
\* Faulty variant of FromXml: a builder is returned whatever the result.
FromXmlSwallowsError ==
    \E loads \in BOOLEAN :
        /\ pc_main = "main"
        /\ model_result' = IF loads THEN "ok" ELSE "err"
        /\ pc_main' = "builder"
        /\ UNCHANGED <<rendering, ctrl_cb, model_dt, sim_vars, mode_vars,
                       frame_rate_limited, exited, fps, snapshot, event,
                       phys_vars, now, hist_vars>>

\* AppBuilder::from_xml: Model::from_xml(xml) succeeds or fails; Ok(builder) or
\* Err(AppBuilderErr) is returned.  On Err the caller has nothing to build
\* from (the example's main unwraps and panics).
FromXml ==
    \E loads \in BOOLEAN :
        /\ pc_main = "main"
        /\ model_result' = IF loads THEN "ok" ELSE "err"
        /\ pc_main' = IF loads THEN "builder" ELSE "load_failed"
        /\ UNCHANGED <<rendering, ctrl_cb, model_dt, sim_vars, mode_vars,
                       frame_rate_limited, exited, fps, snapshot, event,
                       phys_vars, now, hist_vars>>

\* AppBuilder::build: Simulation::new, the bootstrap sim.step(), and the
\* MujocoApp with its two mutexes, Paused, 60 fps, the preference true.
Build ==
    /\ pc_main = "builder"
    /\ sim_lock' = "free"
    /\ sim_steps' = sim_steps + 1
    /\ state_lock' = "free"
    /\ physics_state' = [running_state |-> "Paused", frame_rate |-> InitialFrameRate]
    /\ frame_rate_limited' = TRUE
    /\ pc_main' = "built"
    /\ UNCHANGED <<cfg_vars, sim_mid, hook_calls, exited, fps, snapshot,
                   event, phys_vars, now, hist_vars>>


\* --------------------------------------------------------------- run_app
\* With rendering: launch_physics_thread, then the event loop runs.
RunAppRendering ==
    /\ pc_main = "built"
    /\ rendering
    /\ pc_main' = "idle"
    /\ pc_phys' = "start"
    /\ UNCHANGED <<cfg_vars, sim_vars, mode_vars, frame_rate_limited,
                   exited, fps, snapshot, event, last_updated, timestep,
                   current_state, elapsed_real, num_steps, i, wake, now,
                   hist_vars>>

\* Headless: loop_physics on the caller's context; no thread is spawned.
RunAppHeadless ==
    /\ pc_main = "built"
    /\ ~rendering
    /\ pc_main' = "h_loop"
    /\ UNCHANGED <<cfg_vars, sim_vars, mode_vars, frame_rate_limited,
                   exited, fps, snapshot, event, phys_vars, now, hist_vars>>


\* ------------------------------------------------- loop_physics_threaded
\* let mut last_updated = Instant::now();
PhysStart ==
    \E t \in Readings :
        /\ Alive
        /\ pc_phys = "start"
        /\ last_updated' = t
        /\ now' = t
        /\ pc_phys' = "timestep"
        /\ pause_start' = None
        /\ pause_len' = None
        /\ UNCHANGED <<cfg_vars, sim_vars, mode_vars, main_vars, timestep,
                       current_state, elapsed_real, num_steps, i, wake,
                       hist, steps_at_read, poll_time, rl_base, rl_total,
                       written_from, after_pause, hook_saw, unc_done,
                       unc_reset, pref_switch, pause_read, ever_unpaused>>

\* let timestep = sim.lock().unwrap().state.time();  The guard is a
\* temporary: lock, read and unlock in one statement.
PhysReadTimestep ==
    /\ Alive
    /\ pc_phys = "timestep"
    /\ CanLock(sim_lock)
    /\ timestep' = SimTime
    /\ pc_phys' = "read"
    /\ UNCHANGED <<cfg_vars, sim_vars, mode_vars, main_vars, last_updated,
                   current_state, elapsed_real, num_steps, i, wake, now,
                   hist_vars>>

\* let locked = state.lock().unwrap();
\* No iteration that would take the Uncapped arm starts past the step bound
\* (the bound is on the read, so that an iteration once begun runs to its
\* end).
PhysLockState ==
    /\ Alive
    /\ pc_phys = "read"
    /\ CanLock(state_lock)
    /\ sim_steps < MaxSteps \/ physics_state.running_state # "Uncapped"
    /\ state_lock' = "phys"
    /\ pc_phys' = "copy_rs"
    /\ hist' = {physics_state}
    /\ steps_at_read' = sim_steps
    /\ after_pause' = pause_len
    /\ pause_len' = None
    /\ pref_switch' = IF pref_switch = "pending" THEN "reading" ELSE "none"
    /\ pause_read' = (physics_state.running_state = "Paused")
    /\ UNCHANGED <<cfg_vars, sim_vars, physics_state, main_vars,
                   last_updated, timestep, current_state, elapsed_real,
                   num_steps, i, wake, now, poll_time, rl_base, rl_total,
                   written_from, pause_start, hook_saw, unc_done,
                   unc_reset, ever_unpaused>>

\* current_state = (*locked).clone(): the record is copied field by field
\* while the guard is held.
PhysCopyRunningState ==
    /\ Alive
    /\ pc_phys = "copy_rs"
    /\ current_state' = [current_state EXCEPT
                            !.running_state = physics_state.running_state]
    /\ pc_phys' = "copy_fr"
    /\ UNCHANGED <<cfg_vars, sim_vars, mode_vars, main_vars, last_updated,
                   timestep, elapsed_real, num_steps, i, wake, now,
                   hist_vars>>

\* Faulty variant of PhysCopyFrameRate: the guard outlives the block.
PhysCopyFrameRateKeepsLock ==
    /\ Alive
    /\ pc_phys = "copy_fr"
    /\ current_state' = [current_state EXCEPT
                            !.frame_rate = physics_state.frame_rate]
    /\ pc_phys' = "match"
    /\ UNCHANGED <<cfg_vars, sim_vars, mode_vars, main_vars, last_updated,
                   timestep, elapsed_real, num_steps, i, wake, now,
                   hist_vars>>

\* The second field; the block ends and the guard is dropped.
PhysCopyFrameRate ==
    /\ Alive
    /\ pc_phys = "copy_fr"
    /\ current_state' = [current_state EXCEPT
                            !.frame_rate = physics_state.frame_rate]
    /\ state_lock' = "free"
    /\ pc_phys' = "match"
    /\ UNCHANGED <<cfg_vars, sim_vars, physics_state, main_vars,
                   last_updated, timestep, elapsed_real, num_steps, i,
                   wake, now, hist_vars>>

\* Faulty variant of ArmPaused: last_updated is left as it was.
ArmPausedKeepsBaseline ==
    \E t \in Readings :
        /\ Alive
        /\ pc_phys = "match"
        /\ Arm(current_state) = "Paused"
        /\ now' = t
        /\ wake' = t + PausedSleepMs
        /\ pc_phys' = "sleep"
        /\ current_state' = Matched(current_state)
        /\ hist' = {}
        /\ rl_base' = None
        /\ rl_total' = 0
        /\ pause_start' = None
        /\ pause_len' = None
        /\ unc_done' = IF unc_done = t THEN unc_done ELSE None
        /\ unc_reset' = (unc_reset \/ unc_done \notin {None, t})
        /\ UNCHANGED <<cfg_vars, sim_vars, mode_vars, main_vars,
                       last_updated, timestep, elapsed_real, num_steps, i,
                       steps_at_read, poll_time, written_from, after_pause,
                       hook_saw, pref_switch, pause_read, ever_unpaused>>

\* PhysicsRunningState::Paused =>
\*     last_updated = Instant::now(); thread::sleep(1 ms) begins.
ArmPaused ==
    \E t \in Readings :
        /\ Alive
        /\ pc_phys = "match"
        /\ Arm(current_state) = "Paused"
        /\ last_updated' = t
        /\ now' = t
        /\ wake' = t + PausedSleepMs
        /\ pc_phys' = "sleep"
        /\ current_state' = Matched(current_state)
        /\ hist' = {}
        /\ rl_base' = None
        /\ rl_total' = 0
        /\ pause_start' = None
        /\ pause_len' = None
        /\ unc_done' = IF unc_done = t THEN unc_done ELSE None
        /\ unc_reset' = (unc_reset \/ unc_done \notin {None, t})
        /\ UNCHANGED <<cfg_vars, sim_vars, mode_vars, main_vars, timestep,
                       elapsed_real, num_steps, i, steps_at_read,
                       poll_time, written_from, after_pause, hook_saw,
                       pref_switch, pause_read, ever_unpaused>>

\* PhysicsRunningState::RateLimited =>
\*     let elapsed_real = last_updated.elapsed(); let num_steps = ..
ArmRateLimited ==
    \E t \in Readings :
        /\ Alive
        /\ pc_phys = "match"
        /\ Arm(current_state) = "RateLimited"
        /\ elapsed_real' = t - last_updated
        /\ now' = t
        /\ num_steps' = NumSteps(t - last_updated, timestep)
        /\ i' = 0
        /\ pc_phys' = "rl_for"
        /\ current_state' = Matched(current_state)
        /\ hist' = {}
        /\ poll_time' = t
        /\ rl_base' = IF rl_base = None THEN last_updated ELSE rl_base
        /\ UNCHANGED <<cfg_vars, sim_vars, mode_vars, main_vars,
                       last_updated, timestep, wake, steps_at_read,
                       rl_total, written_from, pause_start, pause_len,
                       after_pause, hook_saw, unc_done, unc_reset,
                       pref_switch, pause_read, ever_unpaused>>

\* PhysicsRunningState::Uncapped => step_sim()
ArmUncapped ==
    /\ Alive
    /\ pc_phys = "match"
    /\ Arm(current_state) = "Uncapped"
    /\ pc_phys' = "step_sim"
    /\ current_state' = Matched(current_state)
    /\ hist' = {}
    /\ rl_base' = None
    /\ rl_total' = 0
    /\ UNCHANGED <<cfg_vars, sim_vars, mode_vars, main_vars, last_updated,
                   timestep, elapsed_real, num_steps, i, wake, now,
                   steps_at_read, poll_time, written_from, pause_start,
                   pause_len, after_pause, hook_saw, unc_done, unc_reset,
                   pref_switch, pause_read, ever_unpaused>>

\* for _ in 0..num_steps { step_sim(); }: one more iteration begins.
RateLimitedNext ==
    /\ Alive
    /\ pc_phys = "rl_for"
    /\ i < num_steps
    /\ i' = i + 1
    /\ pc_phys' = "step_sim"
    /\ unc_done' = None
    /\ unc_reset' = FALSE
    /\ pref_switch' = IF pref_switch = "reading" THEN "none" ELSE pref_switch
    /\ UNCHANGED <<cfg_vars, sim_vars, mode_vars, main_vars, last_updated,
                   timestep, current_state, elapsed_real, num_steps, wake,
                   now, hist, steps_at_read, poll_time, rl_base, rl_total,
                   written_from, pause_start, pause_len, after_pause,
                   hook_saw, pause_read, ever_unpaused>>

\* step_sim: let locked_sim = sim.lock().unwrap();
StepLock ==
    /\ Alive
    /\ pc_phys = "step_sim"
    /\ CanLock(sim_lock)
    /\ sim_lock' = "phys"
    /\ pc_phys' = "control"
    /\ UNCHANGED <<cfg_vars, sim_steps, sim_mid, hook_calls, mode_vars,
                   main_vars, last_updated, timestep, current_state,
                   elapsed_real, num_steps, i, wake, now, hist_vars>>

\* Faulty variant of StepControl: the hook runs twice for a step.
StepControlHookTwice ==
    /\ Alive
    /\ pc_phys = "control"
    /\ hook_calls' = IF ctrl_cb THEN hook_calls + 2 ELSE hook_calls
    /\ hook_saw' = IF ctrl_cb THEN sim_steps ELSE None
    /\ sim_mid' = TRUE
    /\ pc_phys' = "step"
    /\ UNCHANGED <<cfg_vars, sim_lock, sim_steps, mode_vars, main_vars,
                   last_updated, timestep, current_state, elapsed_real,
                   num_steps, i, wake, now, hist, steps_at_read, poll_time,
                   rl_base, rl_total, written_from, pause_start, pause_len,
                   after_pause, unc_done, unc_reset, pref_switch,
                   pause_read, ever_unpaused>>

\* step_sim: the hook and control() when a hook is present; then
\* locked_sim.step() begins.
StepControl ==
    /\ Alive
    /\ pc_phys = "control"
    /\ hook_calls' = IF ctrl_cb THEN hook_calls + 1 ELSE hook_calls
    /\ hook_saw' = IF ctrl_cb THEN sim_steps ELSE None
    /\ sim_mid' = TRUE
    /\ pc_phys' = "step"
    /\ UNCHANGED <<cfg_vars, sim_lock, sim_steps, mode_vars, main_vars,
                   last_updated, timestep, current_state, elapsed_real,
                   num_steps, i, wake, now, hist, steps_at_read, poll_time,
                   rl_base, rl_total, written_from, pause_start, pause_len,
                   after_pause, unc_done, unc_reset, pref_switch,
                   pause_read, ever_unpaused>>

\* step_sim: locked_sim.step() returns and the closure ends, dropping the
\* guard.  Control returns to the arm that called step_sim.
StepFinish ==
    /\ Alive
    /\ pc_phys = "step"
    /\ sim_steps' = sim_steps + 1
    /\ sim_mid' = FALSE
    /\ sim_lock' = "free"
    /\ hook_saw' = None
    /\ pc_phys' = IF Arm(current_state) = "RateLimited"
                  THEN "rl_for" ELSE "uncapped_done"
    /\ rl_total' = IF Arm(current_state) = "RateLimited"
                   THEN rl_total + 1 ELSE rl_total
    /\ UNCHANGED <<cfg_vars, hook_calls, mode_vars, main_vars,
                   last_updated, timestep, current_state, elapsed_real,
                   num_steps, i, wake, now, hist, steps_at_read, poll_time,
                   rl_base, written_from, pause_start, pause_len,
                   after_pause, unc_done, unc_reset, pref_switch,
                   pause_read, ever_unpaused>>

\* The for loop is over: last_updated += num_steps * timestep;
\* thread::sleep(timestep) begins.
RateLimitedAdvance ==
    \E t \in Readings :
        /\ Alive
        /\ pc_phys = "rl_for"
        /\ i = num_steps
        /\ last_updated' = Advanced(last_updated, num_steps, timestep)
        /\ now' = t
        /\ wake' = t + timestep
        /\ pc_phys' = "sleep"
        /\ after_pause' = None
        /\ pause_start' = None
        /\ pause_len' = None
        /\ unc_done' = None
        /\ unc_reset' = FALSE
        /\ pref_switch' = IF pref_switch = "reading" THEN "none" ELSE pref_switch
        /\ UNCHANGED <<cfg_vars, sim_vars, mode_vars, main_vars, timestep,
                       current_state, elapsed_real, num_steps, i, hist,
                       steps_at_read, poll_time, rl_base, rl_total,
                       written_from, hook_saw, pause_read, ever_unpaused>>

\* thread::sleep returns, not before its duration has passed; the loop body
\* ends and its locals go out of scope.
Wake ==
    \E t \in Readings :
        /\ Alive
        /\ pc_phys = "sleep"
        /\ t >= wake
        /\ now' = t
        /\ pc_phys' = "read"
        /\ current_state' = NoState
        /\ elapsed_real' = 0
        /\ num_steps' = 0
        /\ i' = 0
        /\ wake' = 0
        /\ poll_time' = None
        /\ steps_at_read' = 0
        /\ UNCHANGED <<cfg_vars, sim_vars, mode_vars, main_vars,
                       last_updated, timestep, hist, rl_base, rl_total,
                       written_from, pause_start, pause_len, after_pause,
                       hook_saw, unc_done, unc_reset, pref_switch,
                       pause_read, ever_unpaused>>

\* Faulty variant of UncappedDone: the arm sleeps like the RateLimited arm.
UncappedDoneSleeps ==
    \E t \in Readings :
        /\ Alive
        /\ pc_phys = "uncapped_done"
        /\ last_updated' = t
        /\ now' = t
        /\ wake' = t + timestep
        /\ pc_phys' = "sleep"
        /\ pause_start' = None
        /\ pause_len' = None
        /\ UNCHANGED <<cfg_vars, sim_vars, mode_vars, main_vars, timestep,
                       current_state, elapsed_real, num_steps, i, hist,
                       steps_at_read, poll_time, rl_base, rl_total,
                       written_from, after_pause, hook_saw, unc_done,
                       unc_reset, pref_switch, pause_read, ever_unpaused>>

\* Faulty variant of UncappedDone: last_updated is left as it was.
UncappedDoneKeepsBaseline ==
    \E t \in Readings :
        /\ Alive
        /\ pc_phys = "uncapped_done"
        /\ now' = t
        /\ pc_phys' = "read"
        /\ current_state' = NoState
        /\ steps_at_read' = 0
        /\ pause_start' = None
        /\ pause_len' = None
        /\ unc_done' = t
        /\ unc_reset' = FALSE
        /\ UNCHANGED <<cfg_vars, sim_vars, mode_vars, main_vars,
                       last_updated, timestep, elapsed_real, num_steps, i,
                       wake, hist, poll_time, rl_base, rl_total,
                       written_from, after_pause, hook_saw, pref_switch,
                       pause_read, ever_unpaused>>

\* Uncapped arm after step_sim: last_updated = Instant::now(); no sleep;
\* the loop body ends.
UncappedDone ==
    \E t \in Readings :
        /\ Alive
        /\ pc_phys = "uncapped_done"
        /\ last_updated' = t
        /\ now' = t
        /\ pc_phys' = "read"
        /\ current_state' = NoState
        /\ steps_at_read' = 0
        /\ pause_start' = None
        /\ pause_len' = None
        /\ unc_done' = t
        /\ unc_reset' = FALSE
        /\ UNCHANGED <<cfg_vars, sim_vars, mode_vars, main_vars, timestep,
                       elapsed_real, num_steps, i, wake, hist, poll_time,
                       rl_base, rl_total, written_from, after_pause,
                       hook_saw, pref_switch, pause_read, ever_unpaused>>


\* ------------------------------------------- window_event (main context)
\* Events are dispatched one at a time, while the event loop runs.
Dispatching == rendering /\ pc_main = "idle" /\ ~exited

\* WindowEvent::CloseRequested => event_loop.exit()
CloseRequested ==
    /\ Dispatching
    /\ event' = CloseEvent
    /\ exited' = TRUE
    /\ UNCHANGED <<cfg_vars, sim_vars, mode_vars, frame_rate_limited,
                   pc_main, fps, snapshot, phys_vars, now, hist_vars>>

\* Faulty variant of KeyEscape: the handler waits for the simulation lock.
KeyEscapeJoins ==
    \E ev \in KeyEvents :
        /\ Dispatching
        /\ EventArm(ev) = "escape"
        /\ CanLock(sim_lock)
        /\ event' = ev
        /\ exited' = TRUE
        /\ UNCHANGED <<cfg_vars, sim_vars, mode_vars, frame_rate_limited,
                       pc_main, fps, snapshot, phys_vars, now, hist_vars>>

\* Escape, pressed, not a repeat => event_loop.exit()
KeyEscape ==
    \E ev \in KeyEvents :
        /\ Dispatching
        /\ EventArm(ev) = "escape"
        /\ event' = ev
        /\ exited' = TRUE
        /\ UNCHANGED <<cfg_vars, sim_vars, mode_vars, frame_rate_limited,
                       pc_main, fps, snapshot, phys_vars, now, hist_vars>>

\* Space, pressed, not a repeat:
\* let mut locked_value = self.physics_state.lock().unwrap();
KeySpace ==
    \E ev \in KeyEvents :
        /\ Dispatching
        /\ EventArm(ev) = "space"
        /\ CanLock(state_lock)
        /\ event' = ev
        /\ state_lock' = "main"
        /\ pc_main' = "space"
        /\ UNCHANGED <<cfg_vars, sim_vars, physics_state,
                       frame_rate_limited, exited, fps, snapshot,
                       phys_vars, now, hist_vars>>

\* The Space arm's match and its write of running_state.
SpaceWrite ==
    \E t \in Readings :
        /\ pc_main = "space"
        /\ WriteState([physics_state EXCEPT !.running_state =
                         SpaceTarget(physics_state.running_state, frame_rate_limited)], t)
        /\ now' = t
        /\ written_from' = physics_state.running_state
        /\ pc_main' = "space_written"
        /\ UNCHANGED <<cfg_vars, sim_vars, state_lock, frame_rate_limited,
                       exited, fps, snapshot, event, phys_vars,
                       steps_at_read, poll_time, rl_base, rl_total,
                       after_pause, hook_saw, unc_done, unc_reset>>

\* The Space arm ends and the guard is dropped.
SpaceRelease ==
    /\ pc_main = "space_written"
    /\ state_lock' = "free"
    /\ written_from' = "none"
    /\ event' = NoEvent
    /\ pc_main' = "idle"
    /\ UNCHANGED <<cfg_vars, sim_vars, physics_state, frame_rate_limited,
                   exited, fps, snapshot, phys_vars, now, hist,
                   steps_at_read, poll_time, rl_base, rl_total,
                   pause_start, pause_len, after_pause, hook_saw, unc_done,
                   unc_reset, pref_switch, pause_read, ever_unpaused>>

\* Character(c), pressed, not a repeat, and c == "u":
\* self.frame_rate_limited = !self.frame_rate_limited;
KeyU ==
    \E ev \in KeyEvents :
        /\ Dispatching
        /\ EventArm(ev) = "character"
        /\ ev.logical_key = "u"
        /\ event' = ev
        /\ frame_rate_limited' = ~frame_rate_limited
        /\ pc_main' = "u_lock"
        /\ UNCHANGED <<cfg_vars, sim_vars, mode_vars, exited, fps,
                       snapshot, phys_vars, now, hist_vars>>

\* let mut locked_value = self.physics_state.lock().unwrap();
PreferenceLock ==
    /\ pc_main = "u_lock"
    /\ CanLock(state_lock)
    /\ state_lock' = "main"
    /\ pc_main' = "u_write"
    /\ UNCHANGED <<cfg_vars, sim_vars, physics_state, frame_rate_limited,
                   exited, fps, snapshot, event, phys_vars, now, hist_vars>>

\* The write of running_state from the flipped preference.
PreferenceWrite ==
    \E t \in Readings :
        /\ pc_main = "u_write"
        /\ WriteState([physics_state EXCEPT !.running_state =
                         PreferenceTarget(physics_state.running_state,
                                          frame_rate_limited)], t)
        /\ now' = t
        /\ written_from' = physics_state.running_state
        /\ pc_main' = "u_written"
        /\ UNCHANGED <<cfg_vars, sim_vars, state_lock, frame_rate_limited,
                       exited, fps, snapshot, event, phys_vars,
                       steps_at_read, poll_time, rl_base, rl_total,
                       after_pause, hook_saw, unc_done, unc_reset>>

\* The "u" arm ends and the guard is dropped.
PreferenceRelease ==
    /\ pc_main = "u_written"
    /\ state_lock' = "free"
    /\ written_from' = "none"
    /\ event' = NoEvent
    /\ pc_main' = "idle"
    /\ UNCHANGED <<cfg_vars, sim_vars, physics_state, frame_rate_limited,
                   exited, fps, snapshot, phys_vars, now, hist,
                   steps_at_read, poll_time, rl_base, rl_total,
                   pause_start, pause_len, after_pause, hook_saw, unc_done,
                   unc_reset, pref_switch, pause_read, ever_unpaused>>

\* Character(c), pressed, not a repeat, and c != "u": the arm's if is false.
KeyCharacterOther ==
    \E ev \in KeyEvents :
        /\ Dispatching
        /\ EventArm(ev) = "character"
        /\ ev.logical_key # "u"
        /\ pc_main' = "character"
        /\ UNCHANGED <<cfg_vars, sim_vars, mode_vars, frame_rate_limited,
                       exited, fps, snapshot, event, phys_vars, now,
                       hist_vars>>

\* The Character arm ends; window_event returns.
KeyCharacterReturn ==
    /\ pc_main = "character"
    /\ pc_main' = "idle"
    /\ UNCHANGED <<cfg_vars, sim_vars, mode_vars, frame_rate_limited,
                   exited, fps, snapshot, event, phys_vars, now, hist_vars>>

\* _ => {}: a keyboard event that matched none of the three key patterns,
\* a repeat or a release.  Nothing is done with it.
KeyOther ==
    \E ev \in KeyEvents :
        /\ Dispatching
        /\ EventArm(ev) = "other"
        /\ pc_main' = "ignored"
        /\ UNCHANGED <<cfg_vars, sim_vars, mode_vars, frame_rate_limited,
                       exited, fps, snapshot, event, phys_vars, now,
                       hist_vars>>

\* window_event returns.
KeyOtherReturn ==
    /\ pc_main = "ignored"
    /\ pc_main' = "idle"
    /\ UNCHANGED <<cfg_vars, sim_vars, mode_vars, frame_rate_limited,
                   exited, fps, snapshot, event, phys_vars, now, hist_vars>>


\* ------------------------------------------------- render (main context)
\* WindowEvent::RedrawRequested => self.render():
\* let fps = 1. / self.last_render.elapsed().as_secs_f32();
\* self.last_render = Instant::now();
RenderBegin ==
    \E e \in FramePeriods :
        /\ Dispatching
        /\ fps' = Fps(e)
        /\ pc_main' = "r_state"
        /\ UNCHANGED <<cfg_vars, sim_vars, mode_vars, frame_rate_limited,
                       exited, snapshot, event, phys_vars, now, hist_vars>>

\* Faulty variant of RenderFrameRate: the whole record is rewritten.
RenderFrameRateWholeRecord ==
    /\ pc_main = "r_state"
    /\ CanLock(state_lock)
    /\ WriteState([running_state |-> "Paused", frame_rate |-> fps], now)
    /\ pc_main' = "r_sim"
    /\ UNCHANGED <<cfg_vars, sim_vars, state_lock, frame_rate_limited,
                   exited, fps, snapshot, event, phys_vars, now,
                   steps_at_read, poll_time, rl_base, rl_total,
                   written_from, after_pause, hook_saw, unc_done, unc_reset>>

\* self.physics_state.lock().unwrap().frame_rate = fps;  The guard is a
\* temporary: lock, write and unlock in one statement.
RenderFrameRate ==
    /\ pc_main = "r_state"
    /\ CanLock(state_lock)
    /\ WriteState([physics_state EXCEPT !.frame_rate = fps], now)
    /\ pc_main' = "r_sim"
    /\ UNCHANGED <<cfg_vars, sim_vars, state_lock, frame_rate_limited,
                   exited, fps, snapshot, event, phys_vars, now,
                   steps_at_read, poll_time, rl_base, rl_total,
                   written_from, after_pause, hook_saw, unc_done, unc_reset>>

\* let locked_sim = self.sim.lock().unwrap();
RenderLockSim ==
    /\ pc_main = "r_sim"
    /\ CanLock(sim_lock)
    /\ sim_lock' = "main"
    /\ pc_main' = "r_snapshot"
    /\ UNCHANGED <<cfg_vars, sim_steps, sim_mid, hook_calls, mode_vars,
                   frame_rate_limited, exited, fps, snapshot, event,
                   phys_vars, now, hist_vars>>

\* state.time(), mjv_updateScene .. mjr_readPixels read the simulation; the
\* block ends and the guard is dropped.
RenderSnapshot ==
    /\ pc_main = "r_snapshot"
    /\ snapshot' = [steps |-> sim_steps, mid |-> sim_mid]
    /\ sim_lock' = "free"
    /\ pc_main' = "r_finish"
    /\ UNCHANGED <<cfg_vars, sim_steps, sim_mid, hook_calls, mode_vars,
                   frame_rate_limited, exited, fps, event, phys_vars, now,
                   hist_vars>>

\* The frame is drawn from what was read and presented; render returns.
RenderFinish ==
    /\ pc_main = "r_finish"
    /\ snapshot' = NoSnapshot
    /\ fps' = 0
    /\ pc_main' = "idle"
    /\ UNCHANGED <<cfg_vars, sim_vars, mode_vars, frame_rate_limited,
                   exited, event, phys_vars, now, hist_vars>>


\* ----------------------------------------------- loop_physics (headless)
\* let sim = self.sim.lock().unwrap();
HeadlessLock ==
    /\ pc_main = "h_loop"
    /\ sim_steps < MaxSteps
    /\ CanLock(sim_lock)
    /\ sim_lock' = "main"
    /\ pc_main' = "h_control"
    /\ UNCHANGED <<cfg_vars, sim_steps, sim_mid, hook_calls, mode_vars,
                   frame_rate_limited, exited, fps, snapshot, event,
                   phys_vars, now, hist_vars>>

\* The hook and control() when a hook is present; then sim.step() begins.
HeadlessControl ==
    /\ pc_main = "h_control"
    /\ hook_calls' = IF ctrl_cb THEN hook_calls + 1 ELSE hook_calls
    /\ hook_saw' = IF ctrl_cb THEN sim_steps ELSE None
    /\ sim_mid' = TRUE
    /\ pc_main' = "h_step"
    /\ UNCHANGED <<cfg_vars, sim_lock, sim_steps, mode_vars,
                   frame_rate_limited, exited, fps, snapshot, event,
                   phys_vars, now, hist, steps_at_read, poll_time, rl_base,
                   rl_total, written_from, pause_start, pause_len,
                   after_pause, unc_done, unc_reset, pref_switch,
                   pause_read, ever_unpaused>>

\* sim.step() returns; the loop body ends and the guard is dropped.
HeadlessFinish ==
    /\ pc_main = "h_step"
    /\ sim_steps' = sim_steps + 1
    /\ sim_mid' = FALSE
    /\ sim_lock' = "free"
    /\ hook_saw' = None
    /\ pc_main' = "h_loop"
    /\ UNCHANGED <<cfg_vars, hook_calls, mode_vars, frame_rate_limited,
                   exited, fps, snapshot, event, phys_vars, now, hist,
                   steps_at_read, poll_time, rl_base, rl_total,
                   written_from, pause_start, pause_len, after_pause,
                   unc_done, unc_reset, pref_switch, pause_read,
                   ever_unpaused>>

\* ------------------------------------------------------------------- Next
Next ==
    \/ RunAppRendering
    \/ RunAppHeadless
    \/ PhysStart
    \/ PhysReadTimestep
    \/ PhysLockState
    \/ PhysCopyRunningState
    \/ PhysCopyFrameRate
    \/ ArmPaused
    \/ ArmRateLimited
    \/ ArmUncapped
    \/ RateLimitedNext
    \/ StepLock
    \/ StepControl
    \/ StepFinish
    \/ RateLimitedAdvance
    \/ Wake
    \/ UncappedDone
    \/ CloseRequested
    \/ KeyEscape
    \/ KeySpace
    \/ SpaceWrite
    \/ SpaceRelease
    \/ KeyU
    \/ PreferenceLock
    \/ PreferenceWrite
    \/ PreferenceRelease
    \/ KeyCharacterOther
    \/ KeyCharacterReturn
    \/ KeyOther
    \/ KeyOtherReturn
    \/ RenderBegin
    \/ RenderFrameRate
    \/ RenderLockSim
    \/ RenderSnapshot
    \/ RenderFinish
    \/ HeadlessLock
    \/ HeadlessControl
    \/ HeadlessFinish

Spec == Init /\ [][Next]_vars

\* The program from the start of main: loading the model and building the
\* application, then everything of Next.
MainNext ==
    \/ FromXml
    \/ Build
    \/ Next

MainSpec == MainInit /\ [][MainNext]_vars

\* ------------------------------------------------------- fair scheduling
\* The steps of the physics thread.
PhysStep ==
    \/ PhysStart \/ PhysReadTimestep \/ PhysLockState \/ PhysCopyRunningState
    \/ PhysCopyFrameRate \/ ArmPaused \/ ArmRateLimited \/ ArmUncapped
    \/ RateLimitedNext \/ StepLock \/ StepControl \/ StepFinish
    \/ RateLimitedAdvance \/ Wake \/ UncappedDone

\* The steps of the main context that write running_state or end the
\* program: run_app with rendering, the Space and "u" handlers, and
\* CloseRequested.
FairMain ==
    \/ RunAppRendering
    \/ KeySpace \/ SpaceWrite \/ SpaceRelease
    \/ KeyU \/ PreferenceLock \/ PreferenceWrite \/ PreferenceRelease
    \/ CloseRequested

\* The visualiser as its example main builds it: rendering, no control hook.
FairInit == Init /\ rendering /\ ~ctrl_cb

FairNext == PhysStep \/ FairMain

\* Fair scheduling: the main context keeps running while it can take a step
\* (so a handler that holds a lock runs on to its release), and the physics
\* thread, which can be kept from a step only by a lock the main context
\* holds, gets its step when it can take one again and again.
FairSpec ==
    /\ FairInit
    /\ [][FairNext]_vars
    /\ WF_vars(FairMain)
    /\ SF_vars(PhysStep)

\* ------------------------------------------------------------ properties
\* Positions of the physics context inside step_sim, and at the sleep that
\* ends a RateLimited iteration.
Stepping == pc_phys \in {"step_sim", "control", "step"}
RateLimitedDone == pc_phys = "sleep" /\ Arm(current_state) = "RateLimited"

\* A context stands at a lock() that another context's hold keeps from
\* returning.
PhysBlockedByMain ==
    \/ pc_phys = "read" /\ state_lock = "main"
    \/ pc_phys \in {"timestep", "step_sim"} /\ sim_lock = "main"
MainBlockedByPhys ==
    \/ pc_main \in {"u_lock", "r_state"} /\ state_lock = "phys"
    \/ pc_main \in {"r_sim", "h_loop"} /\ sim_lock = "phys"

\* C1: a toggle press (space, not a repeat) handled while running_state is
\* Paused sets running_state to RateLimited when the preference flag is
\* true and to Uncapped when it is false.  The application starts Paused
\* with the flag true, and a toggle press handled before running_state was
\* ever written away from Paused (no key press has completed before it:
\* every completed press writes a running mode) finds exactly that state,
\* so the first toggle press yields RateLimited.
C1_ToggleLeavesPaused ==
    /\ pc_main = "built" =>
          /\ physics_state.running_state = "Paused"
          /\ frame_rate_limited
    /\ pc_main = "space" /\ ~ever_unpaused =>
          /\ physics_state.running_state = "Paused"
          /\ frame_rate_limited
    /\ pc_main = "space_written" /\ written_from = "Paused" =>
          physics_state.running_state =
              IF frame_rate_limited THEN "RateLimited" ELSE "Uncapped"

\* The toggle handler has just left Paused with the preference false.
C1_Witness ==
    /\ pc_main = "space_written"
    /\ written_from = "Paused"
    /\ ~frame_rate_limited
    /\ physics_state.running_state = "Uncapped"

\* C2: the write a toggle press makes while running_state is RateLimited or
\* Uncapped sets running_state to Paused whatever the preference flag is,
\* and changes neither the flag nor frame_rate.
C2_TogglePauses ==
    [][ /\ pc_main = "space"
        /\ pc_main' = "space_written"
        /\ physics_state.running_state \in {"RateLimited", "Uncapped"}
        => /\ physics_state'.running_state = "Paused"
           /\ physics_state'.frame_rate = physics_state.frame_rate
           /\ frame_rate_limited' = frame_rate_limited ]_vars

\* The toggle handler has just paused an Uncapped simulation, the
\* preference being false.
C2_Witness ==
    /\ pc_main = "space_written"
    /\ written_from = "Uncapped"
    /\ ~frame_rate_limited
    /\ physics_state.running_state = "Paused"

\* C3 (as the specification states it): a preference-key press handled
\* while running_state is Paused leaves running_state Paused.
C3_PreferenceKeepsPaused ==
    pc_main = "u_written" /\ written_from = "Paused" =>
        physics_state.running_state = "Paused"

\* C4: a preference-key press handled while running_state is Uncapped
\* changes it to RateLimited, and one handled while RateLimited changes it
\* to Uncapped.  The change is the handler's only write and is made with
\* the mode lock held, the scheduler being outside its mode read, so the
\* value never passes through Paused.
C4_PreferenceSwitchesRunningMode ==
    /\ pc_main = "u_written" /\ written_from = "Uncapped" =>
          physics_state.running_state = "RateLimited" /\ frame_rate_limited
    /\ pc_main = "u_written" /\ written_from = "RateLimited" =>
          physics_state.running_state = "Uncapped" /\ ~frame_rate_limited
    /\ pc_main \in {"u_write", "u_written"} =>
          /\ state_lock = "main"
          /\ pc_phys \notin {"copy_rs", "copy_fr"}

\* The preference handler has just switched Uncapped to RateLimited while
\* the scheduler stands before its mode read.
C4_Witness ==
    /\ pc_main = "u_written"
    /\ written_from = "Uncapped"
    /\ physics_state.running_state = "RateLimited"
    /\ pc_phys = "read"

\* C5: Run-Mode State always holds one of Paused, RateLimited, Uncapped;
\* a key handler writes it with the mode lock held; the scheduler copies it
\* with the mode lock held, during which it does not change, so the copy
\* the scheduler matches on is a value Run-Mode State held as a whole.
C5_ModeReadsAreWhole ==
    /\ physics_state.running_state \in RunningStates
    /\ pc_main \in {"space", "space_written", "u_write", "u_written"} =>
          state_lock = "main"
    /\ pc_phys \in {"copy_rs", "copy_fr"} =>
          state_lock = "phys" /\ hist = {physics_state}
    /\ pc_phys = "match" =>
          /\ current_state \in hist
          /\ current_state.running_state \in RunningStates

\* The scheduler has copied a state that a key handler and render have both
\* written.
C5_Witness ==
    /\ pc_phys = "match"
    /\ current_state.running_state = "Uncapped"
    /\ current_state.frame_rate # InitialFrameRate
    /\ current_state = physics_state

\* C6: in an iteration whose mode read returned RateLimited, with elapsed
\* time e = now - last_updated measured at the start of the arm and
\* timestep t, the scheduler performs exactly floor(e / t) steps and then
\* advances last_updated by floor(e / t) * t, not to the instant of the
\* measurement.
C6_RateLimitedStepCount ==
    /\ (pc_phys = "rl_for" \/ (Stepping /\ Arm(current_state) = "RateLimited")) =>
          /\ num_steps = elapsed_real \div timestep
          /\ i <= num_steps
          /\ last_updated = poll_time - elapsed_real
    /\ RateLimitedDone =>
          /\ sim_steps - steps_at_read = elapsed_real \div timestep
          /\ last_updated = (poll_time - elapsed_real)
                            + (elapsed_real \div timestep) * timestep

\* A RateLimited iteration that measured one and a half timesteps has
\* ended: one step, and last_updated half a timestep behind the measurement.
C6_Witness ==
    /\ RateLimitedDone
    /\ elapsed_real = 3
    /\ timestep = 2
    /\ sim_steps - steps_at_read = 1
    /\ last_updated = poll_time - 1

\* C7: over consecutive RateLimited iterations polled at arbitrary times
\* from baseline B, the steps taken up to and including the poll at time T
\* number floor((T - B) / t), what a single poll at T would give; after
\* every such iteration last_updated = B + steps * t and
\* 0 <= T - last_updated < t.
C7_PhaseAccumulates ==
    RateLimitedDone =>
        /\ rl_total = (poll_time - rl_base) \div timestep
        /\ last_updated = rl_base + rl_total * timestep
        /\ 0 <= poll_time - last_updated
        /\ poll_time - last_updated < timestep

\* A later iteration of a RateLimited run has ended, steps having been
\* taken both in it and before it.
C7_Witness ==
    /\ RateLimitedDone
    /\ num_steps > 0
    /\ rl_total > num_steps

\* C8 (as the specification states it): the first RateLimited iteration
\* after running_state was Paused for a time D takes the steps it would
\* have taken without the pause: D is not converted into steps.
C8_PauseIsDiscarded ==
    /\ pc_phys \in {"rl_for", "step_sim", "control", "step"}
    /\ Arm(current_state) = "RateLimited"
    /\ after_pause # None
    => num_steps = (elapsed_real - after_pause) \div timestep

\* C9, first half as the specification states it: while running_state has
\* been Paused since startup the simulation is not stepped beyond the
\* bootstrap step, in either way of running the scheduler.
C9_NoStepWhilePausedAnywhere ==
    ~ever_unpaused => sim_steps = 1 /\ ~sim_mid

\* C9: the scheduler on the dedicated thread (rendering present) steps only
\* in iterations whose mode read returned RateLimited or Uncapped; an
\* iteration that read Paused performs no step; while running_state has
\* been Paused since startup the simulation is at its bootstrap step.  The
\* headless loop is outside this property: it never reads Run-Mode State.
C9_ThreadedSchedulerHonoursPause ==
    /\ Stepping \/ pc_phys = "uncapped_done" =>
          current_state.running_state \in {"RateLimited", "Uncapped"}
    /\ pc_phys = "sleep" /\ current_state.running_state = "Paused" =>
          sim_steps = steps_at_read
    /\ rendering /\ ~ever_unpaused =>
          sim_steps = 1 /\ ~sim_mid /\ ~Stepping

\* The threaded scheduler has finished an iteration that read Paused, the
\* mode never having left Paused.
C9_Witness ==
    /\ rendering
    /\ ~ever_unpaused
    /\ pc_phys = "sleep"
    /\ current_state.running_state = "Paused"
    /\ now > 0

\* C10: a step and a render snapshot never overlap.  The control hook and
\* the step run, and the snapshot is read, while their context holds the
\* simulation lock; a step is in progress only inside such a hold; so a
\* snapshot sees no step in progress and a count of completed steps the
\* simulation had between two steps.
C10_StepAndSnapshotExclude ==
    /\ sim_lock \in {"free"} \cup Contexts
    /\ pc_phys \in {"control", "step"} => sim_lock = "phys"
    /\ pc_main \in {"r_snapshot", "h_control", "h_step"} => sim_lock = "main"
    /\ sim_mid => pc_phys = "step" \/ pc_main = "h_step"
    /\ snapshot # NoSnapshot =>
          /\ ~snapshot.mid
          /\ snapshot.steps >= 1
          /\ snapshot.steps <= sim_steps

\* Render has read the simulation after its second step, and the physics
\* context has since begun another step.
C10_Witness ==
    /\ pc_main = "r_finish"
    /\ snapshot.steps = 2
    /\ pc_phys = "step"

\* C11: no context holds the simulation lock and the mode lock at the same
\* time, a context that stands waiting for one lock holds neither, and the
\* two contexts are never each blocked on a lock the other holds.
C11_LocksNeverNested ==
    /\ \A c \in Contexts : ~(sim_lock = c /\ state_lock = c)
    /\ pc_phys \in {"read", "timestep", "step_sim"} =>
          sim_lock # "phys" /\ state_lock # "phys"
    /\ pc_main \in {"idle", "u_lock", "r_state", "r_sim", "h_loop"} =>
          sim_lock # "main" /\ state_lock # "main"
    /\ ~(PhysBlockedByMain /\ MainBlockedByPhys)

\* The physics context is inside a step, holding the simulation lock, while
\* a key handler holds the mode lock.
C11_Witness ==
    /\ sim_lock = "phys"
    /\ state_lock = "main"
    /\ pc_phys = "step"
    /\ pc_main = "space_written"

\* C12: running_state changes only in the write step of a key handler, which
\* leaves frame_rate as it is; frame_rate changes only in render's write,
\* which leaves running_state as it is; no step of the scheduler changes
\* Run-Mode State.
C12_WritersOfRunModeState ==
    [][ /\ physics_state'.running_state # physics_state.running_state =>
              /\ pc_main \in {"space", "u_write"}
              /\ pc_main' \in {"space_written", "u_written"}
              /\ physics_state'.frame_rate = physics_state.frame_rate
              /\ pc_phys' = pc_phys
        /\ physics_state'.frame_rate # physics_state.frame_rate =>
              /\ pc_main = "r_state"
              /\ pc_main' = "r_sim"
              /\ physics_state'.running_state = physics_state.running_state
              /\ pc_phys' = pc_phys
        /\ pc_phys' # pc_phys => physics_state' = physics_state ]_vars

\* Render has written a frame rate over a mode a key handler set, while the
\* scheduler sleeps at the end of a RateLimited iteration.
C12_Witness ==
    /\ pc_main = "r_sim"
    /\ physics_state.frame_rate # InitialFrameRate
    /\ physics_state.running_state = "RateLimited"
    /\ RateLimitedDone

\* Positions of the main context inside a key handler.
InKeyHandler ==
    pc_main \in {"space", "space_written", "u_lock", "u_write", "u_written",
                 "character", "ignored"}

\* C13: a quit signal (window close or Escape press) can be handled whenever
\* the event loop dispatches, also while the physics context is inside a
\* step and holds the simulation lock; the handlers of quit, toggle and
\* preference events never hold the simulation lock and change nothing of
\* the simulation; the quit itself changes nothing of the physics context
\* (it is neither joined nor signalled) and takes no lock.
C13_QuitNeverBlocks ==
    /\ [](Dispatching => ENABLED CloseRequested /\ ENABLED KeyEscape)
    /\ [](InKeyHandler \/ exited => sim_lock # "main")
    /\ [][ (exited' # exited \/ (pc_main' # pc_main /\ (InKeyHandler \/ InKeyHandler')))
           => /\ UNCHANGED sim_vars
              /\ UNCHANGED phys_vars
              /\ exited' # exited => UNCHANGED <<mode_vars, now>> /\ exited' ]_vars

\* The loop was quit while the physics context was inside a step, holding
\* the simulation lock.
C13_Witness ==
    /\ exited
    /\ pc_phys = "step"
    /\ sim_mid
    /\ sim_lock = "phys"

\* Something of the application exists: a Shared Simulation Handle, a
\* Run-Mode State, a physics thread, or a step performed.
Constructed ==
    \/ sim_lock # "absent"
    \/ state_lock # "absent"
    \/ physics_state # NoState
    \/ sim_steps # 0
    \/ pc_phys # "unspawned"

\* C14: when the model fails to load, from_xml returns the error, the
\* caller is left with it and nothing of the application is ever
\* constructed or started; what is constructed is constructed by build and
\* run_app from a model that loaded.
C14_LoadFailureLeavesNothing ==
    /\ model_result = "err" => pc_main = "load_failed" /\ ~Constructed
    /\ pc_main = "load_failed" => model_result = "err" /\ ~ENABLED MainNext
    /\ Constructed =>
          /\ model_result = "ok"
          /\ pc_main \notin {"main", "builder", "load_failed"}

\* from_xml has returned the error.
C14_Witness ==
    /\ pc_main = "load_failed"
    /\ model_result = "err"
    /\ ~Constructed

\* C15: a handler that changes running_state or the preference flag, or
\* that quits, runs only for a key press that is not a repeat (or for the
\* window's close request); a key event that is a repeat or a release is
\* handled by the arm that does nothing, and changes neither running_state,
\* nor the flag, nor exits.  Of a press, its repeats and its release, the
\* press alone makes a transition.
C15_EdgeTriggered ==
    /\ [](pc_main \in {"space", "space_written"} => event = KeyPress("Space"))
    /\ [](pc_main \in {"u_lock", "u_write", "u_written"} => event = KeyPress("u"))
    /\ [](exited => event \in {CloseEvent, KeyPress("Escape")})
    /\ [][ \/ physics_state'.running_state # physics_state.running_state
           \/ frame_rate_limited' # frame_rate_limited
           \/ exited' # exited
           => event' \in {KeyPress("Space"), KeyPress("u"), KeyPress("Escape"),
                          CloseEvent} ]_vars
    /\ [][ pc_main' # pc_main /\ "ignored" \in {pc_main, pc_main'}
           => UNCHANGED <<physics_state, frame_rate_limited, exited,
                          state_lock, sim_vars>> ]_vars

\* A repeat or a release is being handled after a toggle press started the
\* simulation: the mode is as the press left it.
C15_Witness ==
    /\ pc_main = "ignored"
    /\ physics_state.running_state = "RateLimited"
    /\ frame_rate_limited
    /\ ~exited

\* C16: with a control hook present, every step the scheduler performs is
\* preceded by one invocation of the hook (and one control()) within the
\* same hold of the simulation lock: the hook has run once for each step
\* completed after the bootstrap step and once for a step in progress; the
\* step in progress advances the state its hook read; the lock is not held
\* between the steps of a RateLimited batch.  Without a hook none is run.
C16_HookPerStep ==
    /\ ctrl_cb =>
          hook_calls = (sim_steps - 1) + (IF sim_mid THEN 1 ELSE 0)
    /\ ~ctrl_cb => hook_calls = 0 /\ hook_saw = None
    /\ ctrl_cb /\ (pc_phys = "step" \/ pc_main = "h_step") =>
          sim_mid /\ hook_saw = sim_steps
    /\ pc_phys = "step" => sim_lock = "phys"
    /\ pc_main = "h_step" => sim_lock = "main"
    /\ pc_phys \in {"rl_for", "step_sim"} => sim_lock # "phys" /\ hook_saw = None

\* The second step of a RateLimited batch is in progress, its hook having
\* run after the first step was completed.
C16_Witness ==
    /\ ctrl_cb
    /\ pc_phys = "step"
    /\ Arm(current_state) = "RateLimited"
    /\ i = 2
    /\ hook_calls = 2
    /\ hook_saw = 2
    /\ sim_steps = 2

\* C17: an iteration whose mode read returned Uncapped performs exactly one
\* step, then sets last_updated to the clock's reading after the step and
\* goes on to the next mode read without sleeping; the physics context
\* sleeps only in iterations that read Paused or RateLimited.
C17_UncappedIteration ==
    /\ [](pc_phys = "sleep" => Arm(current_state) \in {"Paused", "RateLimited"})
    /\ [](Stepping /\ Arm(current_state) = "Uncapped" => sim_steps = steps_at_read)
    /\ [](pc_phys = "uncapped_done" =>
            /\ Arm(current_state) = "Uncapped"
            /\ sim_steps = steps_at_read + 1)
    /\ [][ pc_phys = "uncapped_done" /\ pc_phys' # pc_phys
           => /\ pc_phys' = "read"
              /\ last_updated' = now'
              /\ sim_steps' = sim_steps ]_vars

\* The one step of an Uncapped iteration is done, later than last_updated
\* was last set.
C17_Witness ==
    /\ pc_phys = "uncapped_done"
    /\ sim_steps = steps_at_read + 1
    /\ last_updated < now

\* ------------------------------------------------------------------ C18
\* The RateLimited arm has just computed its batch from last_updated.
RateLimitedPolled == pc_phys = "rl_for" /\ i = 0

ClockHorizon == pc_phys = "sleep" /\ wake > MaxTime

\* The iteration in progress has read a mode other than Paused.
InStepIteration == Stepping \/ pc_phys \in {"rl_for", "uncapped_done"}

BeforeSample == pc_phys \in {"unspawned", "start", "timestep"}

\* C20: the scheduler samples the timestep once, before its first loop
\* iteration, while exactly one step (the bootstrap step) has been performed
\* and none is in progress, whatever the main context does meanwhile; the
\* sample is the simulation time after one step, it is never assigned again,
\* and the RateLimited arm computes its batch, its advance of last_updated
\* and its sleep from it.
C20_TimestepSampledOnce ==
    /\ [](BeforeSample /\ rendering => sim_steps = 1 /\ ~sim_mid /\ timestep = 0)
    /\ [](~BeforeSample => timestep = 1 * model_dt)
    /\ [][ timestep' # timestep =>
             /\ pc_phys = "timestep" /\ pc_phys' = "read"
             /\ sim_steps = 1 /\ ~sim_mid ]_vars
    /\ [][ pc_phys' = "timestep" /\ pc_phys # "timestep" => pc_phys = "start" ]_vars
    /\ [][ pc_phys' = "start" /\ pc_phys # "start" => pc_phys = "unspawned" ]_vars
    /\ [][ pc_phys = "match" /\ pc_phys' = "rl_for" =>
             num_steps' = (now' - last_updated) \div model_dt ]_vars
    /\ [][ pc_phys = "rl_for" /\ pc_phys' = "sleep" =>
             /\ last_updated' = last_updated + num_steps * model_dt
             /\ wake' = now' + model_dt ]_vars

\* A frame was rendered and the mode changed before or after the sample, and
\* a RateLimited batch computed from the sample has been performed.
C20_Witness ==
    /\ RateLimitedDone
    /\ timestep = model_dt
    /\ num_steps >= 1
    /\ sim_steps = 1 + num_steps
    /\ physics_state.frame_rate # InitialFrameRate

\* ------------------------------------------------------------------ C21
\* The "u" arm has flipped the preference and not yet written running_state.
PreferenceFlippedOnly == pc_main \in {"u_lock", "u_write"}

\* The running mode the preference flag stands for.
ModeOf(limited) == IF limited THEN "RateLimited" ELSE "Uncapped"

\* C21: after any sequence of toggle and preference key presses, a
\* running_state other than Paused is RateLimited exactly when
\* frame_rate_limited is true and Uncapped exactly when it is false.  (Inside
\* the "u" arm, between its flip of the flag and its write under the lock,
\* a running mode is still the one of the flag's previous value.)
C21_ModeAgreesWithPreference ==
    LET rs == physics_state.running_state
    IN  /\ rs \in RunningStates
        /\ rs # "Paused" /\ ~PreferenceFlippedOnly =>
              rs = ModeOf(frame_rate_limited)
        /\ rs # "Paused" /\ PreferenceFlippedOnly =>
              rs = ModeOf(~frame_rate_limited)

\* No handler is running; after an Uncapped run and a pause that the
\* scheduler read, a press has resumed into Uncapped with the flag false.
C21_Witness ==
    /\ pc_main = "idle"
    /\ ~frame_rate_limited
    /\ physics_state.running_state = "Uncapped"
    /\ unc_reset
    /\ ~exited

====
